---- MODULE Spec2Model ----
(***************************************************************************)
(* Model of src/packer.py: the three bin packing strategies                *)
(* (GuillotinePacker, MaxRectsPacker, SkylinePacker) and the sheet         *)
(* sequencing they share.  One packer instance is constructed in Init      *)
(* (strategy, sheet size and kerf are constructor arguments) and every     *)
(* step is one complete pack_piece call.                                   *)
(***************************************************************************)
EXTENDS Integers, Sequences, FiniteSets, TLC

\* ------------------------------------------------------------------ bounds
\* Sheet size handed to the constructor.
SheetW == 3
SheetH == 2
\* saw_kerf is either 0 (no clearance) or MaxKerf.
MaxKerf == 1
\* piece_width is drawn from 1..MaxWidth and piece_height from 1..MaxHeight:
\* pieces that fit as given, pieces that fit only rotated, and pieces that
\* exceed the sheet in one or in both dimensions.
MaxWidth == 4
MaxHeight == 3
\* Number of pack_piece calls issued to the packer.
MaxCalls == 3

\* float('inf'), the initial best score of every search.
Inf == 1000000

Strategies == {"GUILLOTINE", "MAXRECTS", "SKYLINE"}

\* default='MAXRECTS' of the packing_algorithm property
DefaultAlgorithm == "MAXRECTS"

VARIABLES
    strategy,      \* which packer class was constructed
    sheet_width,   \* self.sheet_width
    sheet_height,  \* self.sheet_height
    saw_kerf,      \* self.saw_kerf
    sheets,        \* self.sheets; self.current_sheet is always its last element
    calls,         \* history: arguments and return value of every pack_piece call
    packing_algorithm  \* props.packing_algorithm, the strategy the user selected

vars == <<strategy, sheet_width, sheet_height, saw_kerf, sheets, calls,
          packing_algorithm>>

\* ----------------------------------------------------------------- helpers
Min(a, b) == IF a < b THEN a ELSE b
Max(a, b) == IF a > b THEN a ELSE b

\* list.pop(i) / list.remove(obj) on a 1-based sequence
RemoveAt(s, i) == SubSeq(s, 1, i - 1) \o SubSeq(s, i + 1, Len(s))
\* list.insert(i, e): e becomes the element at (1-based) position i
InsertAt(s, i, e) == SubSeq(s, 1, i - 1) \o <<e>> \o SubSeq(s, i, Len(s))

\* FreeRectangle(x, y, width, height)
FreeRectangle(x, y, width, height) ==
    [x |-> x, y |-> y, width |-> width, height |-> height]

\* SkylineNode(x, y, width)
SkylineNode(x, y, width) == [x |-> x, y |-> y, width |-> width]

\* bug variant: the record always says the piece was not rotated
PlacedPieceMut(piece, x, y, width, height, rotated) ==
    [piece |-> piece, x |-> x, y |-> y, width |-> width, height |-> height,
     rotated |-> FALSE]

\* the tuple (piece_data, x, y, width, height, rotated) appended to placed_pieces
PlacedPiece(piece, x, y, width, height, rotated) ==
    [piece |-> piece, x |-> x, y |-> y, width |-> width, height |-> height,
     rotated |-> rotated]

\* the tuple (sheet_index, x, y, final_width, final_height, rotated) returned
Placement(sheet_index, x, y, width, height, rotated) ==
    [ok |-> TRUE, sheet_index |-> sheet_index, x |-> x, y |-> y,
     width |-> width, height |-> height, rotated |-> rotated]

\* the return value None
None ==
    [ok |-> FALSE, sheet_index |-> 0, x |-> 0, y |-> 0,
     width |-> 0, height |-> 0, rotated |-> FALSE]

\* bug variant: current_sheet is never re-pointed and stays the first sheet
CurrentSheetMut(shs) == 1

\* self.current_sheet: _start_new_sheet assigns the dict it appends, so the
\* current sheet is the last element of self.sheets (1-based position)
CurrentSheet(shs) == Len(shs)

\* bug variant: off by one, the sheet count instead of the last index
SheetIndexMut(shs) == Len(shs)

\* sheet_index = len(self.sheets) - 1
SheetIndex(shs) == Len(shs) - 1

\* bug variant: the width is not swapped when the piece is rotated
FinalWidthMut(pw, ph, rotated) == pw

\* final_width / final_height of pack_piece
FinalWidth(pw, ph, rotated) == IF rotated THEN ph ELSE pw
FinalHeight(pw, ph, rotated) == IF rotated THEN pw ELSE ph

\* -------------------------------------------------------- GuillotinePacker
\* GuillotinePacker._start_new_sheet: the sheet dict that is appended
NewRectSheet ==
    [free_rects |-> <<FreeRectangle(0, 0, sheet_width, sheet_height)>>,
     placed_pieces |-> <<>>]

\* bug variant: the height test of the normal orientation is missing
FitsNormalMut(rect, pw, ph) == rect.width >= pw

\* bug variant: the rotated test compares the height against the unswapped side
FitsRotatedMut(rect, pw, ph) == rect.width >= ph /\ rect.height >= ph

\* the normal-orientation test of _find_best_free_rect
FitsNormal(rect, pw, ph) == rect.width >= pw /\ rect.height >= ph

\* the rotated-orientation test of _find_best_free_rect
FitsRotated(rect, pw, ph) == rect.width >= ph /\ rect.height >= pw

\* "Best Short Side Fit" score of one orientation
ShortSide(rect, w, h) == Min(rect.width - w, rect.height - h)
LongSide(rect, w, h) == Max(rect.width - w, rect.height - h)

\* best_rect = None, best_rotated = False, best_score = float('inf')
GuillotineNoBest == [rect |-> 0, rotated |-> FALSE, score |-> Inf]

\* bug variant: a candidate that only equals the best score replaces it
GuillotineVisitMut(best, rects, i, pw, ph) ==
    LET rect == rects[i]
        b1 == IF FitsNormal(rect, pw, ph) /\ ShortSide(rect, pw, ph) <= best.score
              THEN [rect |-> i, rotated |-> FALSE, score |-> ShortSide(rect, pw, ph)]
              ELSE best
        b2 == IF FitsRotated(rect, pw, ph) /\ ShortSide(rect, ph, pw) <= b1.score
              THEN [rect |-> i, rotated |-> TRUE, score |-> ShortSide(rect, ph, pw)]
              ELSE b1
    IN b2

\* one iteration of the loop of GuillotinePacker._find_best_free_rect
GuillotineVisit(best, rects, i, pw, ph) ==
    LET rect == rects[i]
        b1 == IF FitsNormal(rect, pw, ph) /\ ShortSide(rect, pw, ph) < best.score
              THEN [rect |-> i, rotated |-> FALSE, score |-> ShortSide(rect, pw, ph)]
              ELSE best
        b2 == IF FitsRotated(rect, pw, ph) /\ ShortSide(rect, ph, pw) < b1.score
              THEN [rect |-> i, rotated |-> TRUE, score |-> ShortSide(rect, ph, pw)]
              ELSE b1
    IN b2

RECURSIVE GuillotineScan(_, _, _, _, _)
GuillotineScan(best, rects, i, pw, ph) ==
    IF i > Len(rects) THEN best
    ELSE GuillotineScan(GuillotineVisit(best, rects, i, pw, ph), rects, i + 1, pw, ph)

\* bug variant: the scan skips the first free rectangle
GuillotineFindBestFreeRectMut(sheet, pw, ph) ==
    GuillotineScan(GuillotineNoBest, sheet.free_rects, 2, pw, ph)

\* GuillotinePacker._find_best_free_rect; .rect is the 1-based position of
\* best_rect in free_rects, 0 for None
GuillotineFindBestFreeRect(sheet, pw, ph) ==
    GuillotineScan(GuillotineNoBest, sheet.free_rects, 1, pw, ph)

\* bug variant: the right rectangle starts at the piece's edge, without the kerf
GuillotineSplitFreeRectMut(rect, piece_x, piece_y, piece_width, piece_height) ==
    LET leftover_x == rect.width - piece_width
        leftover_y == rect.height - piece_height
    IN IF leftover_x > leftover_y
       THEN (IF leftover_x > saw_kerf
             THEN <<FreeRectangle(piece_x + piece_width, rect.y,
                                  leftover_x - saw_kerf, rect.height)>>
             ELSE <<>>)
            \o
            (IF leftover_y > saw_kerf
             THEN <<FreeRectangle(rect.x, piece_y + piece_height + saw_kerf,
                                  piece_width, leftover_y - saw_kerf)>>
             ELSE <<>>)
       ELSE (IF leftover_y > saw_kerf
             THEN <<FreeRectangle(rect.x, piece_y + piece_height + saw_kerf,
                                  rect.width, leftover_y - saw_kerf)>>
             ELSE <<>>)
            \o
            (IF leftover_x > saw_kerf
             THEN <<FreeRectangle(piece_x + piece_width, rect.y,
                                  leftover_x - saw_kerf, piece_height)>>
             ELSE <<>>)

\* bug variant: the top rectangle of the first branch spans the full width
\* and so runs into the right rectangle
GuillotineSplitFreeRectWide(rect, piece_x, piece_y, piece_width, piece_height) ==
    LET leftover_x == rect.width - piece_width
        leftover_y == rect.height - piece_height
    IN IF leftover_x > leftover_y
       THEN (IF leftover_x > saw_kerf
             THEN <<FreeRectangle(piece_x + piece_width + saw_kerf, rect.y,
                                  leftover_x - saw_kerf, rect.height)>>
             ELSE <<>>)
            \o
            (IF leftover_y > saw_kerf
             THEN <<FreeRectangle(rect.x, piece_y + piece_height + saw_kerf,
                                  rect.width, leftover_y - saw_kerf)>>
             ELSE <<>>)
       ELSE (IF leftover_y > saw_kerf
             THEN <<FreeRectangle(rect.x, piece_y + piece_height + saw_kerf,
                                  rect.width, leftover_y - saw_kerf)>>
             ELSE <<>>)
            \o
            (IF leftover_x > saw_kerf
             THEN <<FreeRectangle(piece_x + piece_width + saw_kerf, rect.y,
                                  leftover_x - saw_kerf, piece_height)>>
             ELSE <<>>)

\* bug variant: the leftovers are compared with 0 instead of the kerf
GuillotineSplitFreeRectNoGuard(rect, piece_x, piece_y, piece_width, piece_height) ==
    LET leftover_x == rect.width - piece_width
        leftover_y == rect.height - piece_height
    IN IF leftover_x > leftover_y
       THEN (IF leftover_x > 0
             THEN <<FreeRectangle(piece_x + piece_width + saw_kerf, rect.y,
                                  leftover_x - saw_kerf, rect.height)>>
             ELSE <<>>)
            \o
            (IF leftover_y > 0
             THEN <<FreeRectangle(rect.x, piece_y + piece_height + saw_kerf,
                                  piece_width, leftover_y - saw_kerf)>>
             ELSE <<>>)
       ELSE (IF leftover_y > 0
             THEN <<FreeRectangle(rect.x, piece_y + piece_height + saw_kerf,
                                  rect.width, leftover_y - saw_kerf)>>
             ELSE <<>>)
            \o
            (IF leftover_x > 0
             THEN <<FreeRectangle(piece_x + piece_width + saw_kerf, rect.y,
                                  leftover_x - saw_kerf, piece_height)>>
             ELSE <<>>)

\* GuillotinePacker._split_free_rect
GuillotineSplitFreeRect(rect, piece_x, piece_y, piece_width, piece_height) ==
    LET leftover_x == rect.width - piece_width
        leftover_y == rect.height - piece_height
    IN IF leftover_x > leftover_y
       THEN (IF leftover_x > saw_kerf
             THEN <<FreeRectangle(piece_x + piece_width + saw_kerf, rect.y,
                                  leftover_x - saw_kerf, rect.height)>>
             ELSE <<>>)
            \o
            (IF leftover_y > saw_kerf
             THEN <<FreeRectangle(rect.x, piece_y + piece_height + saw_kerf,
                                  piece_width, leftover_y - saw_kerf)>>
             ELSE <<>>)
       ELSE (IF leftover_y > saw_kerf
             THEN <<FreeRectangle(rect.x, piece_y + piece_height + saw_kerf,
                                  rect.width, leftover_y - saw_kerf)>>
             ELSE <<>>)
            \o
            (IF leftover_x > saw_kerf
             THEN <<FreeRectangle(piece_x + piece_width + saw_kerf, rect.y,
                                  leftover_x - saw_kerf, piece_height)>>
             ELSE <<>>)

\* bug variant: the used rectangle stays in the free list
GuillotinePlaceMut(shs, best, piece, pw, ph) ==
    LET cur == shs[CurrentSheet(shs)]
        rect == cur.free_rects[best.rect]
        fw == FinalWidth(pw, ph, best.rotated)
        fh == FinalHeight(pw, ph, best.rotated)
        newcur == [free_rects |->
                       cur.free_rects
                       \o GuillotineSplitFreeRect(rect, rect.x, rect.y, fw, fh),
                   placed_pieces |->
                       Append(cur.placed_pieces,
                              PlacedPiece(piece, rect.x, rect.y, fw, fh, best.rotated))]
    IN [sheets |-> [shs EXCEPT ![CurrentSheet(shs)] = newcur],
        result |-> Placement(SheetIndex(shs), rect.x, rect.y, fw, fh, best.rotated)]

\* the tail of GuillotinePacker.pack_piece: record the placement on the
\* current (last) sheet, remove best_rect and extend with the split rectangles
GuillotinePlace(shs, best, piece, pw, ph) ==
    LET cur == shs[CurrentSheet(shs)]
        rect == cur.free_rects[best.rect]
        fw == FinalWidth(pw, ph, best.rotated)
        fh == FinalHeight(pw, ph, best.rotated)
        newcur == [free_rects |->
                       RemoveAt(cur.free_rects, best.rect)
                       \o GuillotineSplitFreeRect(rect, rect.x, rect.y, fw, fh),
                   placed_pieces |->
                       Append(cur.placed_pieces,
                              PlacedPiece(piece, rect.x, rect.y, fw, fh, best.rotated))]
    IN [sheets |-> [shs EXCEPT ![CurrentSheet(shs)] = newcur],
        result |-> Placement(SheetIndex(shs), rect.x, rect.y, fw, fh, best.rotated)]

\* GuillotinePacker.pack_piece.  searches counts the calls of
\* _find_best_free_rect, opened the calls of _start_new_sheet.
GuillotinePackPiece(shs, piece, pw, ph) ==
    LET first == GuillotineFindBestFreeRect(shs[CurrentSheet(shs)], pw, ph)
    IN IF first.rect # 0
       THEN GuillotinePlace(shs, first, piece, pw, ph)
            @@ [searches |-> 1, opened |-> 0]
       ELSE LET shs2 == Append(shs, NewRectSheet)
                second == GuillotineFindBestFreeRect(shs2[CurrentSheet(shs2)], pw, ph)
            IN IF second.rect = 0
               THEN [sheets |-> shs2, result |-> None,
                     searches |-> 2, opened |-> 1]
               ELSE GuillotinePlace(shs2, second, piece, pw, ph)
                    @@ [searches |-> 2, opened |-> 1]

\* ---------------------------------------------------------- MaxRectsPacker
\* MaxRectsPacker._is_contained_in
IsContainedIn(rect_a, rect_b) ==
    /\ rect_a.x >= rect_b.x
    /\ rect_a.y >= rect_b.y
    /\ rect_a.x + rect_a.width <= rect_b.x + rect_b.width
    /\ rect_a.y + rect_a.height <= rect_b.y + rect_b.height

\* best_score = best_score_secondary = float('inf')
MaxRectsNoBest == [rect |-> 0, rotated |-> FALSE, score |-> Inf, secondary |-> Inf]

\* bug variant: the long-side tie-break is missing
MaxRectsBetterMut(short_side, long_side, best) == short_side < best.score

\* the comparison "short_side < best_score or (short_side == best_score and
\* long_side < best_score_secondary)"
MaxRectsBetter(short_side, long_side, best) ==
    \/ short_side < best.score
    \/ (short_side = best.score /\ long_side < best.secondary)

\* one iteration of the loop of MaxRectsPacker._find_best_free_rect
MaxRectsVisit(best, rects, i, pw, ph) ==
    LET rect == rects[i]
        b1 == IF /\ FitsNormal(rect, pw, ph)
                 /\ MaxRectsBetter(ShortSide(rect, pw, ph), LongSide(rect, pw, ph), best)
              THEN [rect |-> i, rotated |-> FALSE,
                    score |-> ShortSide(rect, pw, ph),
                    secondary |-> LongSide(rect, pw, ph)]
              ELSE best
        b2 == IF /\ FitsRotated(rect, pw, ph)
                 /\ MaxRectsBetter(ShortSide(rect, ph, pw), LongSide(rect, ph, pw), b1)
              THEN [rect |-> i, rotated |-> TRUE,
                    score |-> ShortSide(rect, ph, pw),
                    secondary |-> LongSide(rect, ph, pw)]
              ELSE b1
    IN b2

RECURSIVE MaxRectsScan(_, _, _, _, _)
MaxRectsScan(best, rects, i, pw, ph) ==
    IF i > Len(rects) THEN best
    ELSE MaxRectsScan(MaxRectsVisit(best, rects, i, pw, ph), rects, i + 1, pw, ph)

\* MaxRectsPacker._find_best_free_rect
MaxRectsFindBestFreeRect(sheet, pw, ph) ==
    MaxRectsScan(MaxRectsNoBest, sheet.free_rects, 1, pw, ph)

\* the intersection test of MaxRectsPacker._split_free_rect
IntersectsPiece(rect, piece_x, piece_y, piece_width, piece_height) ==
    ~ \/ piece_x >= rect.x + rect.width
      \/ piece_x + piece_width <= rect.x
      \/ piece_y >= rect.y + rect.height
      \/ piece_y + piece_height <= rect.y

\* bug variant: the right and top remainders start at the piece's edge,
\* without the kerf
MaxRectsRemaindersMut(rect, piece_x, piece_y, piece_width, piece_height) ==
    (IF piece_x > rect.x
     THEN <<FreeRectangle(rect.x, rect.y, piece_x - rect.x, rect.height)>>
     ELSE <<>>)
    \o
    (IF piece_x + piece_width < rect.x + rect.width
     THEN <<FreeRectangle(piece_x + piece_width, rect.y,
                          rect.x + rect.width - (piece_x + piece_width),
                          rect.height)>>
     ELSE <<>>)
    \o
    (IF piece_y > rect.y
     THEN <<FreeRectangle(rect.x, rect.y, rect.width, piece_y - rect.y)>>
     ELSE <<>>)
    \o
    (IF piece_y + piece_height < rect.y + rect.height
     THEN <<FreeRectangle(rect.x, piece_y + piece_height, rect.width,
                          rect.y + rect.height - (piece_y + piece_height))>>
     ELSE <<>>)

\* the up to four rectangles one intersecting free rectangle is replaced by
\* (left, right, bottom, top, in the order they are appended)
MaxRectsRemainders(rect, piece_x, piece_y, piece_width, piece_height) ==
    (IF piece_x > rect.x
     THEN <<FreeRectangle(rect.x, rect.y, piece_x - rect.x, rect.height)>>
     ELSE <<>>)
    \o
    (IF piece_x + piece_width + saw_kerf < rect.x + rect.width
     THEN <<FreeRectangle(piece_x + piece_width + saw_kerf, rect.y,
                          rect.x + rect.width - (piece_x + piece_width + saw_kerf),
                          rect.height)>>
     ELSE <<>>)
    \o
    (IF piece_y > rect.y
     THEN <<FreeRectangle(rect.x, rect.y, rect.width, piece_y - rect.y)>>
     ELSE <<>>)
    \o
    (IF piece_y + piece_height + saw_kerf < rect.y + rect.height
     THEN <<FreeRectangle(rect.x, piece_y + piece_height + saw_kerf, rect.width,
                          rect.y + rect.height - (piece_y + piece_height + saw_kerf))>>
     ELSE <<>>)

\* the first loop of MaxRectsPacker._split_free_rect: new_rects collects the
\* remainders of the free rectangles that intersect the piece; a rectangle
\* that does not intersect it contributes nothing
RECURSIVE MaxRectsNewRects(_, _, _, _, _, _)
MaxRectsNewRects(rects, i, piece_x, piece_y, piece_width, piece_height) ==
    IF i > Len(rects) THEN <<>>
    ELSE (IF IntersectsPiece(rects[i], piece_x, piece_y, piece_width, piece_height)
          THEN MaxRectsRemainders(rects[i], piece_x, piece_y, piece_width, piece_height)
          ELSE <<>>)
         \o MaxRectsNewRects(rects, i + 1, piece_x, piece_y, piece_width, piece_height)

\* bug variant: the containment test is missing
MaxRectsKeepsMut(new_rects, j) ==
    /\ new_rects[j].width > 0
    /\ new_rects[j].height > 0

\* the test of the second loop: rect (at position j of new_rects) survives.
\* "rect != other" compares object identity, i.e. positions in new_rects.
MaxRectsKeeps(new_rects, j) ==
    /\ ~ \E o \in 1..Len(new_rects) :
            o # j /\ IsContainedIn(new_rects[j], new_rects[o])
    /\ new_rects[j].width > 0
    /\ new_rects[j].height > 0

RECURSIVE MaxRectsPrune(_, _)
MaxRectsPrune(new_rects, j) ==
    IF j > Len(new_rects) THEN <<>>
    ELSE (IF MaxRectsKeeps(new_rects, j) THEN <<new_rects[j]>> ELSE <<>>)
         \o MaxRectsPrune(new_rects, j + 1)

\* MaxRectsPacker._split_free_rect: the new value of free_rects
MaxRectsSplitFreeRect(free_rects, piece_x, piece_y, piece_width, piece_height) ==
    MaxRectsPrune(
        MaxRectsNewRects(free_rects, 1, piece_x, piece_y, piece_width, piece_height), 1)

\* the tail of MaxRectsPacker.pack_piece
MaxRectsPlace(shs, best, piece, pw, ph) ==
    LET cur == shs[CurrentSheet(shs)]
        rect == cur.free_rects[best.rect]
        fw == FinalWidth(pw, ph, best.rotated)
        fh == FinalHeight(pw, ph, best.rotated)
        newcur == [free_rects |->
                       MaxRectsSplitFreeRect(cur.free_rects, rect.x, rect.y, fw, fh),
                   placed_pieces |->
                       Append(cur.placed_pieces,
                              PlacedPiece(piece, rect.x, rect.y, fw, fh, best.rotated))]
    IN [sheets |-> [shs EXCEPT ![CurrentSheet(shs)] = newcur],
        result |-> Placement(SheetIndex(shs), rect.x, rect.y, fw, fh, best.rotated)]

\* bug variant: the retry starts two sheets instead of one
MaxRectsPackPieceMut(shs, piece, pw, ph) ==
    LET first == MaxRectsFindBestFreeRect(shs[CurrentSheet(shs)], pw, ph)
    IN IF first.rect # 0
       THEN MaxRectsPlace(shs, first, piece, pw, ph)
            @@ [searches |-> 1, opened |-> 0]
       ELSE LET shs2 == Append(Append(shs, NewRectSheet), NewRectSheet)
                second == MaxRectsFindBestFreeRect(shs2[CurrentSheet(shs2)], pw, ph)
            IN IF second.rect = 0
               THEN [sheets |-> shs2, result |-> None,
                     searches |-> 2, opened |-> 1]
               ELSE MaxRectsPlace(shs2, second, piece, pw, ph)
                    @@ [searches |-> 2, opened |-> 1]

\* MaxRectsPacker.pack_piece
MaxRectsPackPiece(shs, piece, pw, ph) ==
    LET first == MaxRectsFindBestFreeRect(shs[CurrentSheet(shs)], pw, ph)
    IN IF first.rect # 0
       THEN MaxRectsPlace(shs, first, piece, pw, ph)
            @@ [searches |-> 1, opened |-> 0]
       ELSE LET shs2 == Append(shs, NewRectSheet)
                second == MaxRectsFindBestFreeRect(shs2[CurrentSheet(shs2)], pw, ph)
            IN IF second.rect = 0
               THEN [sheets |-> shs2, result |-> None,
                     searches |-> 2, opened |-> 1]
               ELSE MaxRectsPlace(shs2, second, piece, pw, ph)
                    @@ [searches |-> 2, opened |-> 1]

\* ----------------------------------------------------------- SkylinePacker
\* SkylinePacker._start_new_sheet: the sheet dict that is appended
NewSkylineSheet ==
    [skyline |-> <<SkylineNode(0, 0, sheet_width)>>, placed_pieces |-> <<>>]

\* the while loop of SkylinePacker._calculate_fit, entered with i, y, width_left
RECURSIVE FitLoop(_, _, _, _, _)
FitLoop(skyline, i, y, width_left, height) ==
    IF width_left > 0 /\ i <= Len(skyline)
    THEN LET y2 == Max(y, skyline[i].y)
         IN IF y2 + height > sheet_height
            THEN [y |-> 0, can_fit |-> FALSE, width_left |-> 0]
            ELSE FitLoop(skyline, i + 1, y2, width_left - skyline[i].width, height)
    ELSE [y |-> y, can_fit |-> TRUE, width_left |-> width_left]

\* bug variant: the test against the sheet's right edge is missing
CalculateFitMut(skyline, index, width, height) ==
    FitLoop(skyline, index, 0, width, height)

\* SkylinePacker._calculate_fit
CalculateFit(skyline, index, width, height) ==
    IF skyline[index].x + width > sheet_width
    THEN [y |-> 0, can_fit |-> FALSE, width_left |-> 0]
    ELSE FitLoop(skyline, index, 0, width, height)

\* best_y = float('inf'), best_x = 0, best_index = -1 (0 here), best_rotated = False
SkylineNoBest == [index |-> 0, x |-> 0, y |-> Inf, rotated |-> FALSE]

\* one of the two loops of SkylinePacker._find_best_position, from node i on
RECURSIVE SkylineScan(_, _, _, _, _, _)
SkylineScan(best, skyline, i, width, height, rotated) ==
    IF i > Len(skyline) THEN best
    ELSE LET fit == CalculateFit(skyline, i, width, height)
             b == IF fit.can_fit /\ fit.y < best.y
                  THEN [index |-> i, x |-> skyline[i].x, y |-> fit.y,
                        rotated |-> rotated]
                  ELSE best
         IN SkylineScan(b, skyline, i + 1, width, height, rotated)

\* bug variant: the rotated orientation is tried before the normal one
FindBestPositionMut(sheet, pw, ph) ==
    LET turned == SkylineScan(SkylineNoBest, sheet.skyline, 1, ph, pw, TRUE)
        both == SkylineScan(turned, sheet.skyline, 1, pw, ph, FALSE)
    IN IF both.index = 0
       THEN [index |-> 0, x |-> 0, y |-> 0, rotated |-> FALSE]
       ELSE both

\* SkylinePacker._find_best_position; index 0 stands for -1.  On failure the
\* code returns (-1, 0, 0, False).
FindBestPosition(sheet, pw, ph) ==
    LET normal == SkylineScan(SkylineNoBest, sheet.skyline, 1, pw, ph, FALSE)
        both == SkylineScan(normal, sheet.skyline, 1, ph, pw, TRUE)
    IN IF both.index = 0
       THEN [index |-> 0, x |-> 0, y |-> 0, rotated |-> FALSE]
       ELSE both

\* bug variant: the nodes under the new level are neither clipped nor dropped
ClipLoopMut(skyline, i) == skyline

\* the first while loop of _add_skyline_level: clip or drop the nodes that
\* start before the right edge of their predecessor, from position i on
RECURSIVE ClipLoop(_, _)
ClipLoop(skyline, i) ==
    IF i <= Len(skyline)
    THEN LET curr == skyline[i]
             prev == skyline[i - 1]
         IN IF curr.x < prev.x + prev.width
            THEN LET shrink == prev.x + prev.width - curr.x
                     clipped == SkylineNode(curr.x + shrink, curr.y, curr.width - shrink)
                 IN IF clipped.width <= 0
                    THEN ClipLoop(RemoveAt(skyline, i), i)
                    ELSE [skyline EXCEPT ![i] = clipped]
            ELSE skyline
    ELSE skyline

\* the second while loop of _add_skyline_level: merge equal-height neighbours
RECURSIVE MergeLoop(_, _)
MergeLoop(skyline, i) ==
    IF i < Len(skyline)
    THEN IF skyline[i].y = skyline[i + 1].y
         THEN MergeLoop(
                  RemoveAt([skyline EXCEPT ![i].width = @ + skyline[i + 1].width], i + 1),
                  i)
         ELSE MergeLoop(skyline, i + 1)
    ELSE skyline

\* The three while loops of SkylinePacker run with an iteration budget: each
\* operator is TRUE when the loop is left within budget iterations and FALSE
\* when the budget runs out first.

\* the while loop of _calculate_fit
RECURSIVE FitLoopEnds(_, _, _, _, _, _)
FitLoopEnds(skyline, i, y, width_left, height, budget) ==
    IF width_left > 0 /\ i <= Len(skyline)
    THEN IF budget = 0 THEN FALSE
         ELSE IF Max(y, skyline[i].y) + height > sheet_height
              THEN TRUE
              ELSE FitLoopEnds(skyline, i + 1, Max(y, skyline[i].y),
                               width_left - skyline[i].width, height, budget - 1)
    ELSE TRUE

\* the first while loop of _add_skyline_level
RECURSIVE ClipLoopEnds(_, _, _)
ClipLoopEnds(skyline, i, budget) ==
    IF i <= Len(skyline)
    THEN IF budget = 0 THEN FALSE
         ELSE IF /\ skyline[i].x < skyline[i - 1].x + skyline[i - 1].width
                 /\ skyline[i].x + skyline[i].width
                        <= skyline[i - 1].x + skyline[i - 1].width
              THEN ClipLoopEnds(RemoveAt(skyline, i), i, budget - 1)
              ELSE TRUE
    ELSE TRUE

\* bug variant: equal-height neighbours are widened but the second one is
\* not popped, so the loop never moves on
RECURSIVE MergeLoopEndsMut(_, _, _)
MergeLoopEndsMut(skyline, i, budget) ==
    IF i < Len(skyline)
    THEN IF budget = 0 THEN FALSE
         ELSE IF skyline[i].y = skyline[i + 1].y
              THEN MergeLoopEndsMut(
                       [skyline EXCEPT ![i].width = @ + skyline[i + 1].width],
                       i, budget - 1)
              ELSE MergeLoopEndsMut(skyline, i + 1, budget - 1)
    ELSE TRUE

\* the second while loop of _add_skyline_level
RECURSIVE MergeLoopEnds(_, _, _)
MergeLoopEnds(skyline, i, budget) ==
    IF i < Len(skyline)
    THEN IF budget = 0 THEN FALSE
         ELSE IF skyline[i].y = skyline[i + 1].y
              THEN MergeLoopEnds(
                       RemoveAt([skyline EXCEPT ![i].width = @ + skyline[i + 1].width],
                                i + 1),
                       i, budget - 1)
              ELSE MergeLoopEnds(skyline, i + 1, budget - 1)
    ELSE TRUE

\* bug variant: the new level forgets the piece's height
NewSkylineNodeMut(x, y, width, height) == SkylineNode(x, y + saw_kerf, width)

\* bug variant: the new level forgets the kerf
NewSkylineNodeNoKerf(x, y, width, height) == SkylineNode(x, y + height, width)

\* the node SkylinePacker._add_skyline_level inserts
NewSkylineNode(x, y, width, height) == SkylineNode(x, y + height + saw_kerf, width)

\* bug variant: the equal-height merge pass is missing
AddSkylineLevelMut(skyline, index, x, y, width, height) ==
    ClipLoop(InsertAt(skyline, index, NewSkylineNode(x, y, width, height)), index + 1)

\* SkylinePacker._add_skyline_level: the new value of the skyline
AddSkylineLevel(skyline, index, x, y, width, height) ==
    MergeLoop(
        ClipLoop(InsertAt(skyline, index, NewSkylineNode(x, y, width, height)), index + 1),
        1)

\* the tail of SkylinePacker.pack_piece
SkylinePlace(shs, best, piece, pw, ph) ==
    LET cur == shs[CurrentSheet(shs)]
        fw == FinalWidth(pw, ph, best.rotated)
        fh == FinalHeight(pw, ph, best.rotated)
        newcur == [skyline |->
                       AddSkylineLevel(cur.skyline, best.index, best.x, best.y, fw, fh),
                   placed_pieces |->
                       Append(cur.placed_pieces,
                              PlacedPiece(piece, best.x, best.y, fw, fh, best.rotated))]
    IN [sheets |-> [shs EXCEPT ![CurrentSheet(shs)] = newcur],
        result |-> Placement(SheetIndex(shs), best.x, best.y, fw, fh, best.rotated)]

\* bug variant: a failed retry takes the fresh sheet back
SkylinePackPieceMut(shs, piece, pw, ph) ==
    LET first == FindBestPosition(shs[CurrentSheet(shs)], pw, ph)
    IN IF first.index # 0
       THEN SkylinePlace(shs, first, piece, pw, ph)
            @@ [searches |-> 1, opened |-> 0]
       ELSE LET shs2 == Append(shs, NewSkylineSheet)
                second == FindBestPosition(shs2[CurrentSheet(shs2)], pw, ph)
            IN IF second.index = 0
               THEN [sheets |-> shs, result |-> None,
                     searches |-> 2, opened |-> 1]
               ELSE SkylinePlace(shs2, second, piece, pw, ph)
                    @@ [searches |-> 2, opened |-> 1]

\* SkylinePacker.pack_piece
SkylinePackPiece(shs, piece, pw, ph) ==
    LET first == FindBestPosition(shs[CurrentSheet(shs)], pw, ph)
    IN IF first.index # 0
       THEN SkylinePlace(shs, first, piece, pw, ph)
            @@ [searches |-> 1, opened |-> 0]
       ELSE LET shs2 == Append(shs, NewSkylineSheet)
                second == FindBestPosition(shs2[CurrentSheet(shs2)], pw, ph)
            IN IF second.index = 0
               THEN [sheets |-> shs2, result |-> None,
                     searches |-> 2, opened |-> 1]
               ELSE SkylinePlace(shs2, second, piece, pw, ph)
                    @@ [searches |-> 2, opened |-> 1]

\* ------------------------------------------------------------ state machine
\* In every action out is the outcome of the one pack_piece call of the
\* step; piece_data is the call's sequence number.
CallRecord(piece, pw, ph, out) ==
    [piece |-> piece, width |-> pw, height |-> ph, result |-> out.result,
     searches |-> out.searches, opened |-> out.opened]

\* GuillotinePacker(sheet_width, sheet_height, saw_kerf).pack_piece(piece, pw, ph)
GuillotinePack(pw, ph) ==
    /\ strategy = "GUILLOTINE"
    /\ Len(calls) < MaxCalls
    /\ \E out \in {GuillotinePackPiece(sheets, Len(calls) + 1, pw, ph)} :
          /\ sheets' = out.sheets
          /\ calls' = Append(calls, CallRecord(Len(calls) + 1, pw, ph, out))
    /\ UNCHANGED <<strategy, sheet_width, sheet_height, saw_kerf, packing_algorithm>>

\* MaxRectsPacker(sheet_width, sheet_height, saw_kerf).pack_piece(piece, pw, ph)
MaxRectsPack(pw, ph) ==
    /\ strategy = "MAXRECTS"
    /\ Len(calls) < MaxCalls
    /\ \E out \in {MaxRectsPackPiece(sheets, Len(calls) + 1, pw, ph)} :
          /\ sheets' = out.sheets
          /\ calls' = Append(calls, CallRecord(Len(calls) + 1, pw, ph, out))
    /\ UNCHANGED <<strategy, sheet_width, sheet_height, saw_kerf, packing_algorithm>>

\* SkylinePacker(sheet_width, sheet_height, saw_kerf).pack_piece(piece, pw, ph)
SkylinePack(pw, ph) ==
    /\ strategy = "SKYLINE"
    /\ Len(calls) < MaxCalls
    /\ \E out \in {SkylinePackPiece(sheets, Len(calls) + 1, pw, ph)} :
          /\ sheets' = out.sheets
          /\ calls' = Append(calls, CallRecord(Len(calls) + 1, pw, ph, out))
    /\ UNCHANGED <<strategy, sheet_width, sheet_height, saw_kerf, packing_algorithm>>

\* __init__ of the three classes: store the arguments, start the first sheet.
\* The packer is used directly; the scene property keeps its default and no
\* packer class reads it.
Init ==
    /\ strategy \in Strategies
    /\ sheet_width = SheetW
    /\ sheet_height = SheetH
    /\ saw_kerf \in {0, MaxKerf}
    /\ sheets = IF strategy = "SKYLINE" THEN <<NewSkylineSheet>> ELSE <<NewRectSheet>>
    /\ calls = <<>>
    /\ packing_algorithm = DefaultAlgorithm

Next ==
    \E pw \in 1..MaxWidth, ph \in 1..MaxHeight :
        \/ GuillotinePack(pw, ph)
        \/ MaxRectsPack(pw, ph)
        \/ SkylinePack(pw, ph)

Spec == Init /\ [][Next]_vars

\* ---------------------------------------------------------------- scenarios
\* The two set-ups of the worked scenarios, <<sheet_width, sheet_height,
\* saw_kerf>>, and the piece sides they use.
ScenarioSetups == {<<1220, 2440, 3>>, <<1000, 1000, 0>>}
ScenarioSizes == {600, 700}
\* Number of pack_piece calls of a scenario run.
ScenarioCalls == 4

\* pack_piece of the class that was constructed
PackPiece(shs, piece, pw, ph) ==
    CASE strategy = "GUILLOTINE" -> GuillotinePackPiece(shs, piece, pw, ph)
      [] strategy = "MAXRECTS" -> MaxRectsPackPiece(shs, piece, pw, ph)
      [] strategy = "SKYLINE" -> SkylinePackPiece(shs, piece, pw, ph)

\* one pack_piece call of a scenario run
ScenarioPack(pw, ph) ==
    /\ Len(calls) < ScenarioCalls
    /\ \E out \in {PackPiece(sheets, Len(calls) + 1, pw, ph)} :
          /\ sheets' = out.sheets
          /\ calls' = Append(calls, CallRecord(Len(calls) + 1, pw, ph, out))
    /\ UNCHANGED <<strategy, sheet_width, sheet_height, saw_kerf, packing_algorithm>>

\* a packer of any of the three classes constructed with a scenario set-up
ScenarioInit ==
    /\ strategy \in Strategies
    /\ \E setup \in ScenarioSetups :
           /\ sheet_width = setup[1]
           /\ sheet_height = setup[2]
           /\ saw_kerf = setup[3]
    /\ sheets = IF strategy = "SKYLINE" THEN <<NewSkylineSheet>> ELSE <<NewRectSheet>>
    /\ calls = <<>>
    /\ packing_algorithm = DefaultAlgorithm

ScenarioNext == \E pw \in ScenarioSizes, ph \in ScenarioSizes : ScenarioPack(pw, ph)

ScenarioSpec == ScenarioInit /\ [][ScenarioNext]_vars

\* ------------------------------------------------------------- wide sheet
\* A SkylinePacker on a sheet wide enough for the profile to have a low
\* stretch on both sides of a higher one: WideW x WideH, pieces with sides
\* in 1..WideDim, WideCalls calls.
WideW == 4
WideH == 3
WideDim == 2
WideCalls == 4

\* SkylinePacker(WideW, WideH, saw_kerf).pack_piece(piece, pw, ph)
WidePack(pw, ph) ==
    /\ Len(calls) < WideCalls
    /\ \E out \in {SkylinePackPiece(sheets, Len(calls) + 1, pw, ph)} :
          /\ sheets' = out.sheets
          /\ calls' = Append(calls, CallRecord(Len(calls) + 1, pw, ph, out))
    /\ UNCHANGED <<strategy, sheet_width, sheet_height, saw_kerf, packing_algorithm>>

\* SkylinePacker.__init__ with the wide sheet
WideInit ==
    /\ strategy = "SKYLINE"
    /\ sheet_width = WideW
    /\ sheet_height = WideH
    /\ saw_kerf \in {0, MaxKerf}
    /\ sheets = <<NewSkylineSheet>>
    /\ calls = <<>>
    /\ packing_algorithm = DefaultAlgorithm

WideNext == \E pw \in 1..WideDim, ph \in 1..WideDim : WidePack(pw, ph)

WideSpec == WideInit /\ [][WideNext]_vars

\* ------------------------------------------------------------ create_layout
\* PLYWOOD_OT_create_layout.execute for one thickness group: the packer is
\* constructed from the scene properties and the pieces are packed in the
\* order of the sort, largest area first.

\* one iteration of "for piece in pieces_to_pack": the next piece of the
\* sorted list has at most the area of the one before it
LayoutPack(pw, ph) ==
    /\ Len(calls) < MaxCalls
    /\ calls # <<>> =>
           pw * ph <= calls[Len(calls)].width * calls[Len(calls)].height
    /\ \E out \in {GuillotinePackPiece(sheets, Len(calls) + 1, pw, ph)} :
          /\ sheets' = out.sheets
          /\ calls' = Append(calls, CallRecord(Len(calls) + 1, pw, ph, out))
    /\ UNCHANGED <<strategy, sheet_width, sheet_height, saw_kerf, packing_algorithm>>

\* the user has selected any of the three algorithms in the panel;
\* "packer = GuillotinePacker(sheet_width, sheet_length, saw_kerf)"
LayoutInit ==
    /\ packing_algorithm \in Strategies
    /\ strategy = "GUILLOTINE"
    /\ sheet_width = SheetW
    /\ sheet_height = SheetH
    /\ saw_kerf \in {0, MaxKerf}
    /\ sheets = <<NewRectSheet>>
    /\ calls = <<>>

LayoutNext == \E pw \in 1..MaxWidth, ph \in 1..MaxHeight : LayoutPack(pw, ph)

LayoutSpec == LayoutInit /\ [][LayoutNext]_vars

\* ============================================================== properties
\* placements of the sheet at (1-based) position s
Placed(s) == sheets[s].placed_pieces

\* two occupied rectangles intersect with positive area
Overlap(a, b) ==
    /\ a.x < b.x + b.width
    /\ b.x < a.x + a.width
    /\ a.y < b.y + b.height
    /\ b.y < a.y + a.height

\* signed distance between two occupied rectangles along each axis
GapX(a, b) == Max(b.x - (a.x + a.width), a.x - (b.x + b.width))
GapY(a, b) == Max(b.y - (a.y + a.height), a.y - (b.y + b.height))

InBounds(r) ==
    /\ r.x >= 0
    /\ r.y >= 0
    /\ r.x + r.width <= sheet_width
    /\ r.y + r.height <= sheet_height

\* the piece fits an entirely empty sheet in at least one orientation
FitsEmptySheet(w, h) ==
    \/ (w <= sheet_width /\ h <= sheet_height)
    \/ (h <= sheet_width /\ w <= sheet_height)

SetMax(S) == CHOOSE m \in S : \A n \in S : n <= m

Failed(i) == ~calls[i].result.ok
Index(i) == calls[i].result.sheet_index

\* a step is one pack_piece call; LastCall is the call it appended
IsCall == Len(calls') = Len(calls) + 1

\* ---------------------------------------------------------------------- C1
\* C1: on every sheet of every strategy no two recorded placements intersect
\* with positive area.
C1_NoOverlap ==
    \A s \in 1..Len(sheets) :
        \A i, j \in 1..Len(Placed(s)) :
            i < j => ~Overlap(Placed(s)[i], Placed(s)[j])

\* three pieces share one sheet
C1_Witness == \E s \in 1..Len(sheets) : Len(Placed(s)) >= 3

\* ---------------------------------------------------------------------- C2
\* C2: every returned placement, and every recorded one, lies inside the
\* sheet: x >= 0, y >= 0, x + width <= sheet_width, y + height <= sheet_height.
C2_Containment ==
    /\ \A i \in 1..Len(calls) : calls[i].result.ok => InBounds(calls[i].result)
    /\ \A s \in 1..Len(sheets) : \A i \in 1..Len(Placed(s)) : InBounds(Placed(s)[i])

\* a piece placed away from the origin that touches the far corner of the sheet
C2_Witness ==
    \E i \in 1..Len(calls) :
        /\ calls[i].result.ok
        /\ calls[i].result.x > 0
        /\ calls[i].result.x + calls[i].result.width = sheet_width
        /\ calls[i].result.y + calls[i].result.height = sheet_height

\* ---------------------------------------------------------------------- C3
\* C3: pack_piece fails if and only if the piece fits an empty sheet in
\* neither orientation, whatever was packed before.
C3_FailIffTooLarge ==
    \A i \in 1..Len(calls) :
        Failed(i) <=> ~FitsEmptySheet(calls[i].width, calls[i].height)

\* a piece is placed, a later one is placed only after the retry on a fresh
\* sheet, and a third one fails
C3_Witness ==
    \E i, j, k \in 1..Len(calls) :
        /\ i < j
        /\ calls[i].result.ok
        /\ calls[j].result.ok /\ calls[j].searches = 2
        /\ Failed(k)

\* ---------------------------------------------------------------------- C4
\* Unplaceable as section 7 words it: the smaller dimension exceeds the
\* sheet's smaller one AND the larger exceeds the sheet's larger one.
UnplaceableBoth(w, h) ==
    /\ Min(w, h) > Min(sheet_width, sheet_height)
    /\ Max(w, h) > Max(sheet_width, sheet_height)

\* either of the two comparisons suffices
UnplaceableEither(w, h) ==
    \/ Min(w, h) > Min(sheet_width, sheet_height)
    \/ Max(w, h) > Max(sheet_width, sheet_height)

\* C4 as stated: pack_piece fails exactly for the pieces whose smaller AND
\* larger dimension both exceed the sheet's.
C4_Original ==
    \A i \in 1..Len(calls) :
        Failed(i) <=> UnplaceableBoth(calls[i].width, calls[i].height)

\* C4 (amended): pack_piece fails exactly for the pieces whose smaller
\* dimension exceeds the sheet's smaller dimension OR whose larger dimension
\* exceeds the sheet's larger dimension.
C4_Amended ==
    \A i \in 1..Len(calls) :
        Failed(i) <=> UnplaceableEither(calls[i].width, calls[i].height)

\* a failed piece whose smaller side would fit: only its long side is too long
C4_Witness ==
    \E i \in 1..Len(calls) :
        /\ Failed(i)
        /\ Min(calls[i].width, calls[i].height) <= Min(sheet_width, sheet_height)

\* ---------------------------------------------------------------------- C5
C5_Step ==
    IsCall =>
        LET c == calls'[Len(calls')]
        IN /\ ~c.result.ok =>
                /\ Len(sheets') = Len(sheets) + 1
                /\ sheets'[Len(sheets')].placed_pieces = <<>>
                /\ \A s \in 1..Len(sheets) :
                       sheets'[s].placed_pieces = sheets[s].placed_pieces
           /\ (Len(calls) > 0 /\ Failed(Len(calls))
                  /\ FitsEmptySheet(c.width, c.height)) =>
                /\ c.result.ok
                /\ c.result.sheet_index = Len(sheets) - 1
                /\ c.result.x = 0 /\ c.result.y = 0
                /\ Len(sheets') = Len(sheets)
                /\ Len(sheets'[Len(sheets')].placed_pieces) = 1

\* C5: a failing call adds exactly one sheet, which is empty when the call
\* returns, and changes no placement list; the call after a failure places
\* any piece that fits an empty sheet at the origin of that fresh sheet.
C5_FailureAddsOneEmptySheet == [][C5_Step]_vars

\* a failed call on a packer that already holds a placement, followed by a
\* successful one
C5_Witness ==
    \E i \in 2..Len(calls) - 1 :
        calls[i - 1].result.ok /\ Failed(i) /\ calls[i + 1].result.ok

\* ---------------------------------------------------------------------- C6
NonDecreasingIndex ==
    \A i, j \in 1..Len(calls) :
        (i < j /\ calls[i].result.ok /\ calls[j].result.ok) => Index(i) <= Index(j)

IsFirstPlacement(i) ==
    calls[i].result.ok /\ \A k \in 1..(i - 1) : Failed(k)

\* C6 as stated: returned sheet_index values are non-decreasing in call
\* order and the first placement returned has sheet_index 0.
C6_Original ==
    /\ NonDecreasingIndex
    /\ \A i \in 1..Len(calls) : IsFirstPlacement(i) => Index(i) = 0

\* C6 (amended): returned sheet_index values are non-decreasing in call
\* order and the first placement returned has sheet_index equal to the
\* number of failed calls that preceded it (0 when none did).
C6_Amended ==
    /\ NonDecreasingIndex
    /\ \A i \in 1..Len(calls) :
           IsFirstPlacement(i) =>
               Index(i) = Cardinality({k \in 1..(i - 1) : Failed(k)})

\* the first call failed and two later placements went to different sheets
C6_Witness ==
    /\ Len(calls) >= 3
    /\ Failed(1)
    /\ calls[2].result.ok /\ calls[3].result.ok
    /\ Index(2) < Index(3)

\* ---------------------------------------------------------------------- C7
\* some free rectangle of the sheet takes the piece in some orientation
RectFeasible(sheet, pw, ph) ==
    \E r \in 1..Len(sheet.free_rects) :
        \/ (sheet.free_rects[r].width >= pw /\ sheet.free_rects[r].height >= ph)
        \/ (sheet.free_rects[r].width >= ph /\ sheet.free_rects[r].height >= pw)

\* landing height of a piece of width w whose left edge is at node i
LandingY(skyline, i, w) ==
    SetMax({skyline[n].y : n \in {m \in i..Len(skyline) :
                                      skyline[m].x < skyline[i].x + w}})

\* some skyline node takes the piece in some orientation
SkylineFeasible(sheet, pw, ph) ==
    \E i \in 1..Len(sheet.skyline) :
        \/ /\ sheet.skyline[i].x + pw <= sheet_width
           /\ LandingY(sheet.skyline, i, pw) + ph <= sheet_height
        \/ /\ sheet.skyline[i].x + ph <= sheet_width
           /\ LandingY(sheet.skyline, i, ph) + pw <= sheet_height

Feasible(sheet, pw, ph) ==
    IF strategy = "SKYLINE" THEN SkylineFeasible(sheet, pw, ph)
    ELSE RectFeasible(sheet, pw, ph)

C7_Step ==
    IsCall =>
        LET c == calls'[Len(calls')]
        IN /\ c.searches \in {1, 2}
           /\ c.opened \in {0, 1}
           /\ c.searches = 1 + c.opened
           /\ Len(sheets') = Len(sheets) + c.opened
           /\ c.opened = 1 <=> ~Feasible(sheets[Len(sheets)], c.width, c.height)

\* C7: every pack_piece call searches at most twice and opens at most one
\* sheet, and it opens one exactly when the active sheet has no feasible
\* candidate for the piece in either orientation.
C7_AtMostTwoSearches == [][C7_Step]_vars

\* a piece that fits an empty sheet found no room on a sheet already in use
C7_Witness ==
    \E i \in 1..Len(calls) :
        /\ calls[i].opened = 1
        /\ calls[i].result.ok
        /\ Len(Placed(Index(i))) >= 1

\* ---------------------------------------------------------------------- C8
C8_Step ==
    /\ Len(sheets') >= Len(sheets)
    /\ \A s \in 1..(Len(sheets') - 1) : s <= Len(sheets) /\ sheets'[s] = sheets[s]
    /\ Len(sheets') = Len(sheets) =>
           LET old == sheets[Len(sheets)].placed_pieces
               new == sheets'[Len(sheets')].placed_pieces
           IN Len(new) >= Len(old) /\ SubSeq(new, 1, Len(old)) = old

\* C8: a pack_piece call changes neither the placements nor the free-space
\* structure of any sheet but the newest one, and only appends to the
\* newest sheet's placement list.
C8_EarlierSheetsFrozen == [][C8_Step]_vars

\* the last piece went to the newest sheet although a free rectangle of an
\* earlier sheet would have taken it
C8_Witness ==
    /\ strategy # "SKYLINE"
    /\ Len(calls) >= 1
    /\ calls[Len(calls)].result.ok
    /\ Index(Len(calls)) = Len(sheets) - 1
    /\ \E s \in 1..(Len(sheets) - 1) :
           /\ Len(Placed(s)) >= 1
           /\ RectFeasible(sheets[s], calls[Len(calls)].width, calls[Len(calls)].height)

\* ---------------------------------------------------------------------- C9
KerfGap ==
    \A s \in 1..Len(sheets) :
        \A i, j \in 1..Len(Placed(s)) :
            i < j => \/ GapX(Placed(s)[i], Placed(s)[j]) >= saw_kerf
                     \/ GapY(Placed(s)[i], Placed(s)[j]) >= saw_kerf

C10_SkylineKerfGap == strategy = "SKYLINE" => KerfGap

\* --------------------------------------------------------------------- C11
\* the kerf-wide strip immediately to the right of a placement
RightStrip(p) == [x |-> p.x + p.width, y |-> p.y, width |-> saw_kerf, height |-> p.height]

\* the kerf-wide strip immediately above a placement
TopStrip(p) == [x |-> p.x, y |-> p.y + p.height, width |-> p.width, height |-> saw_kerf]

FourSquaresPacked ==
    /\ sheet_width = 1220 /\ sheet_height = 2440 /\ saw_kerf = 3
    /\ Len(calls) >= 4
    /\ \A i \in 1..4 : calls[i].width = 600 /\ calls[i].height = 600

FourSquaresResult ==
    /\ \A i \in 1..4 :
           calls[i].result.ok /\ Index(i) = 0 /\ InBounds(calls[i].result)
    /\ \A i, j \in 1..4 :
           i < j => \/ GapX(calls[i].result, calls[j].result) >= 3
                    \/ GapY(calls[i].result, calls[j].result) >= 3

\* C12: with sheet 1220x2440 and kerf 3, four 600x600 pieces all land on
\* sheet 0 inside the sheet, every pair at least 3 apart along x or y, for
\* each of the three strategies.
C12_FourSquares == FourSquaresPacked => FourSquaresResult

\* the same scenario restricted to the guillotine and maxrects strategies
C12_FourSquaresRectStrategies ==
    (FourSquaresPacked /\ strategy # "SKYLINE") => FourSquaresResult

\* --------------------------------------------------------------------- C13
\* the packer was built for sheet 1000x1000 with kerf 0 and its first three
\* calls packed 600x700 pieces
ThreeSlabsPacked ==
    /\ sheet_width = 1000 /\ sheet_height = 1000 /\ saw_kerf = 0
    /\ Len(calls) >= 3
    /\ \A i \in 1..3 : calls[i].width = 600 /\ calls[i].height = 700

\* C13 as stated: the first piece is on sheet 0, the second finds no room
\* there and goes to sheet 1, and the third is returned with sheet_index 1.
C13_Original ==
    ThreeSlabsPacked =>
        /\ \A i \in 1..3 : calls[i].result.ok
        /\ Index(1) = 0
        /\ calls[2].opened = 1 /\ Index(2) = 1
        /\ Index(3) = 1

\* C13 (amended): the first piece is on sheet 0, the second finds no room
\* there and goes to sheet 1, and the third finds no room on sheet 1 either
\* and is returned with sheet_index 2.
C13_Amended ==
    ThreeSlabsPacked =>
        /\ \A i \in 1..3 : calls[i].result.ok
        /\ Index(1) = 0
        /\ calls[2].opened = 1 /\ Index(2) = 1
        /\ calls[3].opened = 1 /\ Index(3) = 2

\* the three 600x700 pieces have been packed and three sheets are in use
C13_Witness == ThreeSlabsPacked /\ Len(sheets) = 3 /\ Len(Placed(3)) = 1

\* --------------------------------------------------------------------- C14
\* placed dimensions of a result against the input dimensions of its call
DimsFollowRotation(r, w, h) ==
    IF r.rotated THEN r.width = h /\ r.height = w
    ELSE r.width = w /\ r.height = h

\* C14: every returned placement has the input dimensions swapped when
\* rotated is true and unchanged when it is false.
C14_RotationCorrect ==
    \A i \in 1..Len(calls) :
        calls[i].result.ok =>
            DimsFollowRotation(calls[i].result, calls[i].width, calls[i].height)

\* a non-square piece was returned rotated
C14_Witness ==
    \E i \in 1..Len(calls) :
        /\ calls[i].result.ok
        /\ calls[i].result.rotated
        /\ calls[i].width # calls[i].height

\* --------------------------------------------------------------------- C15
\* the nodes partition [0, sheet_width) in ascending x, each with positive
\* width, and no two neighbours have the same y
SkylineWellFormed(skyline) ==
    /\ Len(skyline) >= 1
    /\ skyline[1].x = 0
    /\ \A n \in 1..Len(skyline) : skyline[n].width > 0
    /\ \A n \in 2..Len(skyline) :
           /\ skyline[n].x = skyline[n - 1].x + skyline[n - 1].width
           /\ skyline[n].y # skyline[n - 1].y
    /\ skyline[Len(skyline)].x + skyline[Len(skyline)].width = sheet_width

\* C15: in SkylinePacker the skyline of every sheet is an ordered partition
\* of [0, sheet_width) into nodes of positive width with no two adjacent
\* nodes of equal y.
C15_SkylineWellFormed ==
    strategy = "SKYLINE" =>
        \A s \in 1..Len(sheets) : SkylineWellFormed(sheets[s].skyline)

\* two pieces of equal height side by side: their levels have been merged
\* into one node that is followed by a lower one
C15_Witness ==
    /\ strategy = "SKYLINE"
    /\ \E s \in 1..Len(sheets) :
           /\ Len(Placed(s)) >= 2
           /\ Len(sheets[s].skyline) = 2
           /\ sheets[s].skyline[1].width =
                  Placed(s)[1].width + Placed(s)[2].width

\* --------------------------------------------------------------------- C16
FreeSet(sheet) == {sheet.free_rects[r] : r \in 1..Len(sheet.free_rects)}

\* the rectangle lies entirely to one side of the footprint on some axis
ClearOf(rect, p) ==
    \/ p.x >= rect.x + rect.width
    \/ p.x + p.width <= rect.x
    \/ p.y >= rect.y + rect.height
    \/ p.y + p.height <= rect.y

C16_Step ==
    (IsCall /\ strategy = "MAXRECTS" /\ calls'[Len(calls')].result.ok
        /\ calls'[Len(calls')].opened = 0) =>
        \A rect \in FreeSet(sheets[Len(sheets)]) :
            ClearOf(rect, calls'[Len(calls')].result) =>
                rect \in FreeSet(sheets'[Len(sheets')])

\* C16: in MaxRectsPacker a free rectangle of the active sheet that does not
\* overlap the placed piece's footprint is still in the free set, with the
\* same coordinates, after pack_piece returns.
C16_UntouchedRectsKept == [][C16_Step]_vars

\* --------------------------------------------------------------------- C17
\* C17: in GuillotinePacker the free rectangles of each sheet are pairwise
\* non-overlapping.
C17_GuillotineFreeDisjoint ==
    strategy = "GUILLOTINE" =>
        \A s \in 1..Len(sheets) :
            \A a, b \in 1..Len(sheets[s].free_rects) :
                a < b => ~Overlap(sheets[s].free_rects[a], sheets[s].free_rects[b])

\* a guillotine sheet that holds two pieces and still has two free rectangles
C17_Witness ==
    /\ strategy = "GUILLOTINE"
    /\ \E s \in 1..Len(sheets) :
           Len(Placed(s)) >= 2 /\ Len(sheets[s].free_rects) >= 2

\* --------------------------------------------------------------------- C18
\* rect a lies inside rect b
Inside(a, b) ==
    /\ a.x >= b.x
    /\ a.y >= b.y
    /\ a.x + a.width <= b.x + b.width
    /\ a.y + a.height <= b.y + b.height

\* C18: in MaxRectsPacker no free rectangle of a sheet is contained in
\* another free rectangle of that sheet (so no two are identical).
C18_MaxRectsNoContained ==
    strategy = "MAXRECTS" =>
        \A s \in 1..Len(sheets) :
            \A a, b \in 1..Len(sheets[s].free_rects) :
                a # b => ~Inside(sheets[s].free_rects[a], sheets[s].free_rects[b])

\* a maxrects sheet, two pieces placed, with two free rectangles that overlap
C18_Witness ==
    /\ strategy = "MAXRECTS"
    /\ \E s \in 1..Len(sheets) :
           /\ Len(Placed(s)) >= 2
           /\ \E a, b \in 1..Len(sheets[s].free_rects) :
                  a < b /\ Overlap(sheets[s].free_rects[a], sheets[s].free_rects[b])

\* --------------------------------------------------------------------- C19
\* C19: in GuillotinePacker and MaxRectsPacker every free rectangle has
\* x >= 0, y >= 0, width > 0, height > 0 and lies inside the sheet.
C19_FreeRectsInSheet ==
    strategy # "SKYLINE" =>
        \A s \in 1..Len(sheets) :
            \A r \in 1..Len(sheets[s].free_rects) :
                /\ InBounds(sheets[s].free_rects[r])
                /\ sheets[s].free_rects[r].width > 0
                /\ sheets[s].free_rects[r].height > 0

\* with a positive kerf, a free rectangle one unit wide reaches the right
\* edge of a sheet that holds a piece
C19_Witness ==
    /\ strategy # "SKYLINE"
    /\ saw_kerf > 0
    /\ \E s \in 1..Len(sheets) :
           /\ Len(Placed(s)) >= 1
           /\ \E r \in 1..Len(sheets[s].free_rects) :
                  /\ sheets[s].free_rects[r].width = 1
                  /\ sheets[s].free_rects[r].x + 1 = sheet_width

\* --------------------------------------------------------------------- C22
\* the sheets a GuillotinePacker constructed with the same arguments holds
\* after the first n recorded calls
RECURSIVE GuillotineRun(_)
GuillotineRun(n) ==
    IF n = 0 THEN <<NewRectSheet>>
    ELSE GuillotinePackPiece(GuillotineRun(n - 1), calls[n].piece,
                             calls[n].width, calls[n].height).sheets

\* C22: for the same sheet size, kerf and sequence of pieces, MaxRectsPacker
\* never ends with more sheets than GuillotinePacker.
C22_MaxRectsNoMoreSheets ==
    strategy = "MAXRECTS" => Len(sheets) <= Len(GuillotineRun(Len(calls)))

\* --------------------------------------------------------------------- C23
\* the sheet _start_new_sheet appends
FreshSheet == IF strategy = "SKYLINE" THEN NewSkylineSheet ELSE NewRectSheet

\* the sheet the search that produced call record c ran on, seen from the
\* state before the call: the active sheet, or the fresh sheet after a retry
Searched(c) == IF c.opened = 1 THEN FreshSheet ELSE sheets[Len(sheets)]

\* the packer's sheets after the first n recorded calls
RECURSIVE SheetsAfter(_)
SheetsAfter(n) ==
    IF n = 0 THEN <<FreshSheet>>
    ELSE PackPiece(SheetsAfter(n - 1), calls[n].piece,
                   calls[n].width, calls[n].height).sheets

\* the sheet the search that produced the recorded call i ran on
SearchedBy(i) ==
    IF calls[i].opened = 1 THEN FreshSheet
    ELSE SheetsAfter(i - 1)[Len(SheetsAfter(i - 1))]

\* the (free rectangle, rotated) pairs of a sheet in which a w x h piece fits
FitPairs(sheet, w, h) ==
    {p \in (1..Len(sheet.free_rects)) \X BOOLEAN :
        IF p[2]
        THEN sheet.free_rects[p[1]].width >= h /\ sheet.free_rects[p[1]].height >= w
        ELSE sheet.free_rects[p[1]].width >= w /\ sheet.free_rects[p[1]].height >= h}

\* leftover_x and leftover_y of a pair
LeftoverX(sheet, p, w, h) == sheet.free_rects[p[1]].width - (IF p[2] THEN h ELSE w)
LeftoverY(sheet, p, w, h) == sheet.free_rects[p[1]].height - (IF p[2] THEN w ELSE h)

PairShort(sheet, p, w, h) == Min(LeftoverX(sheet, p, w, h), LeftoverY(sheet, p, w, h))
PairLong(sheet, p, w, h) == Max(LeftoverX(sheet, p, w, h), LeftoverY(sheet, p, w, h))

\* p is met before q: an earlier rectangle of the free list, or the same
\* rectangle unrotated
MetBefore(p, q) == p[1] < q[1] \/ (p[1] = q[1] /\ ~p[2] /\ q[2])

\* the pair with the least short-side leftover, the first met among equals
BestShortSidePair(sheet, w, h) ==
    CHOOSE p \in FitPairs(sheet, w, h) :
        \A q \in FitPairs(sheet, w, h) \ {p} :
            \/ PairShort(sheet, p, w, h) < PairShort(sheet, q, w, h)
            \/ /\ PairShort(sheet, p, w, h) = PairShort(sheet, q, w, h)
               /\ MetBefore(p, q)

\* the result is the placement at the origin of pair p
PlacedAtPair(res, sheet, p) ==
    /\ res.x = sheet.free_rects[p[1]].x
    /\ res.y = sheet.free_rects[p[1]].y
    /\ res.rotated = p[2]

C23_Step ==
    (IsCall /\ strategy = "GUILLOTINE" /\ calls'[Len(calls')].result.ok) =>
        LET c == calls'[Len(calls')]
        IN PlacedAtPair(c.result, Searched(c),
                        BestShortSidePair(Searched(c), c.width, c.height))

\* C23: GuillotinePacker places each piece at the origin of the (free
\* rectangle, orientation) pair of the active sheet with the least
\* min(leftover_x, leftover_y) among the pairs the piece fits in; among equal
\* scores the pair met first in free-list order wins, unrotated before
\* rotated for the same rectangle.
C23_GuillotineBestShortSide == [][C23_Step]_vars

\* a guillotine call that had fitting pairs in two different free rectangles
\* and did not take the first rectangle of the list
C23_Witness ==
    /\ strategy = "GUILLOTINE"
    /\ \E i \in 1..Len(calls) :
           /\ calls[i].result.ok
           /\ \E p, q \in FitPairs(SearchedBy(i), calls[i].width, calls[i].height) :
                  /\ p[1] = 1
                  /\ q[1] > 1
                  /\ PlacedAtPair(calls[i].result, SearchedBy(i), q)
                  /\ ~PlacedAtPair(calls[i].result, SearchedBy(i), p)

\* --------------------------------------------------------------------- C24
\* the pair least in (short-side leftover, long-side leftover), the first
\* met among pairs equal in both
BestShortLongPair(sheet, w, h) ==
    CHOOSE p \in FitPairs(sheet, w, h) :
        \A q \in FitPairs(sheet, w, h) \ {p} :
            \/ PairShort(sheet, p, w, h) < PairShort(sheet, q, w, h)
            \/ /\ PairShort(sheet, p, w, h) = PairShort(sheet, q, w, h)
               /\ PairLong(sheet, p, w, h) < PairLong(sheet, q, w, h)
            \/ /\ PairShort(sheet, p, w, h) = PairShort(sheet, q, w, h)
               /\ PairLong(sheet, p, w, h) = PairLong(sheet, q, w, h)
               /\ MetBefore(p, q)

C24_Step ==
    (IsCall /\ strategy = "MAXRECTS" /\ calls'[Len(calls')].result.ok) =>
        LET c == calls'[Len(calls')]
        IN PlacedAtPair(c.result, Searched(c),
                        BestShortLongPair(Searched(c), c.width, c.height))

\* C24: MaxRectsPacker places each piece at the origin of the (free
\* rectangle, orientation) pair of the active sheet that is lexicographically
\* least in (min(leftover_x, leftover_y), max(leftover_x, leftover_y)) among
\* the pairs the piece fits in; among pairs equal in both the one met first
\* in iteration order wins.
C24_MaxRectsShortThenLong == [][C24_Step]_vars

\* a maxrects call in which the long-side leftover decided: an earlier pair
\* had the same short-side leftover as the chosen one but a larger long side
C24_Witness ==
    /\ strategy = "MAXRECTS"
    /\ \E i \in 1..Len(calls) :
           /\ calls[i].result.ok
           /\ LET sh == SearchedBy(i)
                  w == calls[i].width
                  h == calls[i].height
                  b == BestShortLongPair(sh, w, h)
              IN \E q \in FitPairs(sh, w, h) :
                     /\ MetBefore(q, b)
                     /\ PairShort(sh, q, w, h) = PairShort(sh, b, w, h)
                     /\ PairLong(sh, q, w, h) > PairLong(sh, b, w, h)

\* --------------------------------------------------------------------- C25
\* the width and the height a w x h piece presents in an orientation
OrientedWidth(w, h, rotated) == IF rotated THEN h ELSE w
OrientedHeight(w, h, rotated) == IF rotated THEN w ELSE h

\* the feasible (rotated, start index) candidates of a skyline
SkylineCandidates(skyline, w, h) ==
    {c \in BOOLEAN \X (1..Len(skyline)) :
        /\ skyline[c[2]].x + OrientedWidth(w, h, c[1]) <= sheet_width
        /\ LandingY(skyline, c[2], OrientedWidth(w, h, c[1]))
               + OrientedHeight(w, h, c[1]) <= sheet_height}

CandidateX(skyline, c) == skyline[c[2]].x
CandidateY(skyline, c, w, h) == LandingY(skyline, c[2], OrientedWidth(w, h, c[1]))

\* c is evaluated before d: all unrotated candidates first, then by index
EvaluatedBefore(c, d) == (~c[1] /\ d[1]) \/ (c[1] = d[1] /\ c[2] < d[2])

\* the candidate of lowest landing y, the first evaluated among equals
LowestFirstCandidate(skyline, w, h) ==
    CHOOSE c \in SkylineCandidates(skyline, w, h) :
        \A d \in SkylineCandidates(skyline, w, h) \ {c} :
            \/ CandidateY(skyline, c, w, h) < CandidateY(skyline, d, w, h)
            \/ /\ CandidateY(skyline, c, w, h) = CandidateY(skyline, d, w, h)
               /\ EvaluatedBefore(c, d)

\* the result is the placement of candidate c
PlacedAtCandidate(res, skyline, c, w, h) ==
    /\ res.x = CandidateX(skyline, c)
    /\ res.y = CandidateY(skyline, c, w, h)
    /\ res.rotated = c[1]

C25_Step ==
    (IsCall /\ strategy = "SKYLINE" /\ calls'[Len(calls')].result.ok) =>
        LET c == calls'[Len(calls')]
            skyline == Searched(c).skyline
        IN PlacedAtCandidate(c.result, skyline,
                             LowestFirstCandidate(skyline, c.width, c.height),
                             c.width, c.height)

LowestY(skyline, w, h) ==
    CHOOSE y \in {CandidateY(skyline, c, w, h) : c \in SkylineCandidates(skyline, w, h)} :
        \A c \in SkylineCandidates(skyline, w, h) : y <= CandidateY(skyline, c, w, h)

\* the smallest x over the feasible candidates that land at the lowest y
LeftmostLowestX(skyline, w, h) ==
    CHOOSE x \in {CandidateX(skyline, c) : c \in SkylineCandidates(skyline, w, h)} :
        /\ \E c \in SkylineCandidates(skyline, w, h) :
               /\ CandidateX(skyline, c) = x
               /\ CandidateY(skyline, c, w, h) = LowestY(skyline, w, h)
        /\ \A c \in SkylineCandidates(skyline, w, h) :
               CandidateY(skyline, c, w, h) = LowestY(skyline, w, h) =>
                   x <= CandidateX(skyline, c)

C26_Step ==
    (IsCall /\ strategy = "SKYLINE" /\ calls'[Len(calls')].result.ok) =>
        LET c == calls'[Len(calls')]
            skyline == Searched(c).skyline
        IN /\ c.result.y = LowestY(skyline, c.width, c.height)
           /\ c.result.x = LeftmostLowestX(skyline, c.width, c.height)

\* C26: SkylinePacker places each piece at the lowest feasible landing
\* height and, among all feasible candidates of either orientation that
\* reach that height, at the leftmost one.
C26_SkylineBottomLeft == [][C26_Step]_vars

\* --------------------------------------------------------------------- C27
\* the rectangles the claim adds for a piece of final size fw x fh placed at
\* the origin of free rectangle r
ReclaimedRects(r, fw, fh) ==
    LET lx == r.width - fw
        ly == r.height - fh
    IN IF lx > ly
       THEN (IF lx > saw_kerf
             THEN {FreeRectangle(r.x + fw + saw_kerf, r.y, lx - saw_kerf, r.height)}
             ELSE {})
            \cup
            (IF ly > saw_kerf
             THEN {FreeRectangle(r.x, r.y + fh + saw_kerf, fw, ly - saw_kerf)}
             ELSE {})
       ELSE (IF ly > saw_kerf
             THEN {FreeRectangle(r.x, r.y + fh + saw_kerf, r.width, ly - saw_kerf)}
             ELSE {})
            \cup
            (IF lx > saw_kerf
             THEN {FreeRectangle(r.x + fw + saw_kerf, r.y, lx - saw_kerf, fh)}
             ELSE {})

\* free list new is free list old minus r plus the reclaimed rectangles
ReclaimedFrom(old, new, r, fw, fh) ==
    /\ FreeSet([free_rects |-> new]) =
           (FreeSet([free_rects |-> old]) \ {r}) \cup ReclaimedRects(r, fw, fh)
    /\ Len(new) = Len(old) - 1 + Cardinality(ReclaimedRects(r, fw, fh))

C27_Step ==
    (IsCall /\ strategy = "GUILLOTINE" /\ calls'[Len(calls')].result.ok) =>
        LET c == calls'[Len(calls')]
            old == Searched(c).free_rects
            new == sheets'[Len(sheets')].free_rects
        IN \E i \in 1..Len(old) :
               /\ old[i].x = c.result.x
               /\ old[i].y = c.result.y
               /\ ReclaimedFrom(old, new, old[i], c.result.width, c.result.height)

\* C27: after GuillotinePacker places a piece of final size (fw, fh) at the
\* origin of free rectangle r, the free set is the old set minus r plus the
\* right and top rectangles of the single guillotine cut (each only when its
\* leftover exceeds the kerf), and all other free rectangles are unchanged.
C27_GuillotineReclamation == [][C27_Step]_vars

\* a guillotine placement into one of several free rectangles that removed
\* it and added one new rectangle
C27_Witness ==
    /\ strategy = "GUILLOTINE"
    /\ \E i \in 1..Len(calls) :
           /\ calls[i].result.ok
           /\ calls[i].opened = 0
           /\ Len(SearchedBy(i).free_rects) >= 2
           /\ Len(SheetsAfter(i)[Len(SheetsAfter(i))].free_rects)
                  = Len(SearchedBy(i).free_rects)
           /\ FreeSet(SheetsAfter(i)[Len(SheetsAfter(i))])
                  # FreeSet(SearchedBy(i))

\* --------------------------------------------------------------------- C28
\* C28: in GuillotinePacker and MaxRectsPacker no free rectangle of a sheet
\* intersects with positive area a piece placed on that sheet.
C28_FreeRectsUnoccupied ==
    strategy # "SKYLINE" =>
        \A s \in 1..Len(sheets) :
            \A r \in 1..Len(sheets[s].free_rects) :
                \A i \in 1..Len(Placed(s)) :
                    ~Overlap(sheets[s].free_rects[r], Placed(s)[i])

\* a maxrects sheet that holds two pieces and has two free rectangles that
\* share area
C28_Witness ==
    /\ strategy = "MAXRECTS"
    /\ \E s \in 1..Len(sheets) :
           /\ Len(Placed(s)) >= 2
           /\ \E a, b \in 1..Len(sheets[s].free_rects) :
                  /\ a < b
                  /\ Overlap(sheets[s].free_rects[a], sheets[s].free_rects[b])
                  /\ sheets[s].free_rects[a].x # sheets[s].free_rects[b].x

\* --------------------------------------------------------------------- C29
\* the x-intervals of two placements overlap with positive length
SpansOverlap(a, b) == a.x < b.x + b.width /\ b.x < a.x + a.width

\* C29: in SkylinePacker, of two placements on the same sheet whose
\* x-intervals overlap with positive length, the later one has y at least
\* the earlier one's y + placed height + kerf.
C29_SkylineVerticalKerf ==
    strategy = "SKYLINE" =>
        \A s \in 1..Len(sheets) :
            \A i, j \in 1..Len(Placed(s)) :
                (i < j /\ SpansOverlap(Placed(s)[i], Placed(s)[j])) =>
                    Placed(s)[j].y >=
                        Placed(s)[i].y + Placed(s)[i].height + saw_kerf

\* with a positive kerf, a piece rests exactly one kerf above an earlier one
C29_Witness ==
    /\ strategy = "SKYLINE"
    /\ saw_kerf > 0
    /\ \E s \in 1..Len(sheets) :
           \E i, j \in 1..Len(Placed(s)) :
               /\ i < j
               /\ SpansOverlap(Placed(s)[i], Placed(s)[j])
               /\ Placed(s)[j].y =
                      Placed(s)[i].y + Placed(s)[i].height + saw_kerf

\* --------------------------------------------------------------------- C30
\* the x-span of a skyline node overlaps the x-interval of a placement
NodeOver(node, p) == node.x < p.x + p.width /\ p.x < node.x + node.width

\* every node over a placement is at least the placement's top plus the kerf
SkylineAbovePieces ==
    strategy = "SKYLINE" =>
        \A s \in 1..Len(sheets) :
            \A i \in 1..Len(Placed(s)) :
                \A n \in 1..Len(sheets[s].skyline) :
                    NodeOver(sheets[s].skyline[n], Placed(s)[i]) =>
                        sheets[s].skyline[n].y >=
                            Placed(s)[i].y + Placed(s)[i].height + saw_kerf

\* the profile height at column x
ProfileY(skyline, x) ==
    SetMax({skyline[n].y : n \in {m \in 1..Len(skyline) :
                skyline[m].x <= x /\ x < skyline[m].x + skyline[m].width}})

\* no call lowers the profile of a sheet at any x
ProfileNeverDrops ==
    strategy = "SKYLINE" =>
        \A s \in 1..Len(sheets) :
            \A x \in 0..(sheet_width - 1) :
                ProfileY(sheets'[s].skyline, x) >= ProfileY(sheets[s].skyline, x)

\* C30: in SkylinePacker every skyline node whose x-span overlaps a
\* placement's x-interval has y >= placement.y + placed height + kerf, and
\* the profile height at any x never decreases.
C30_SkylineAbovePlacements == []SkylineAbovePieces /\ [][ProfileNeverDrops]_vars

\* with a positive kerf, a wide piece landed across nodes of different
\* heights, and the profile keeps a lower node beside it
C30_Witness ==
    /\ strategy = "SKYLINE"
    /\ saw_kerf > 0
    /\ \E s \in 1..Len(sheets) :
           /\ Len(sheets[s].skyline) >= 2
           /\ \E i, j \in 1..Len(Placed(s)) :
                  /\ i < j
                  /\ Placed(s)[j].y > 0
                  /\ Placed(s)[j].width > Placed(s)[i].width
                  /\ SpansOverlap(Placed(s)[i], Placed(s)[j])

\* --------------------------------------------------------------------- C36
\* C36: create_layout packs with the strategy selected in the
\* packing_algorithm property: the packer variant constructed matches the
\* selected value.
C36_SelectedStrategyUsed == calls # <<>> => strategy = packing_algorithm

\* --------------------------------------------------------------------- C31
\* every _calculate_fit loop a search of this skyline runs for a w x h piece
\* is left within one iteration per node
FitLoopsEnd(skyline, w, h) ==
    \A i \in 1..Len(skyline) :
        /\ FitLoopEnds(skyline, i, 0, w, h, Len(skyline))
        /\ FitLoopEnds(skyline, i, 0, h, w, Len(skyline))

\* the two loops of _add_skyline_level, run for the placement the search of
\* this sheet returns, are each left within one iteration per node
LevelLoopsEnd(sheet, w, h) ==
    LET best == FindBestPosition(sheet, w, h)
        inserted == InsertAt(sheet.skyline, best.index,
                             NewSkylineNode(best.x, best.y,
                                            FinalWidth(w, h, best.rotated),
                                            FinalHeight(w, h, best.rotated)))
    IN /\ ClipLoopEnds(inserted, best.index + 1, Len(inserted))
       /\ MergeLoopEnds(ClipLoop(inserted, best.index + 1), 1, Len(inserted))

C31_Step ==
    IsCall =>
        LET c == calls'[Len(calls')]
        IN /\ \/ c.result = None
              \/ c.result.ok /\ c.result.sheet_index \in 0..(Len(sheets') - 1)
           /\ strategy = "SKYLINE" =>
                  /\ FitLoopsEnd(sheets[Len(sheets)].skyline, c.width, c.height)
                  /\ FitLoopsEnd(Searched(c).skyline, c.width, c.height)
                  /\ c.result.ok => LevelLoopsEnd(Searched(c), c.width, c.height)

\* C31: every pack_piece call of every strategy returns a placement or the
\* failure value, and in SkylinePacker the fit loop, the clipping loop and
\* the equal-height merge loop are each left after at most as many
\* iterations as the skyline has nodes.
C31_CallsTerminate == [][C31_Step]_vars

\* a skyline placement across several nodes: the clipping loop dropped
\* nodes, so the sheet ends with fewer nodes than it had
C31_Witness ==
    /\ strategy = "SKYLINE"
    /\ \E i \in 1..Len(calls) :
           /\ calls[i].result.ok
           /\ calls[i].opened = 0
           /\ Len(SearchedBy(i).skyline) >= 2
           /\ Len(SheetsAfter(i)[Len(SheetsAfter(i))].skyline)
                  < Len(SearchedBy(i).skyline)

\* --------------------------------------------------------------------- C32
\* number of sheets the first n recorded calls opened
RECURSIVE OpenedUpTo(_)
OpenedUpTo(n) == IF n = 0 THEN 0 ELSE OpenedUpTo(n - 1) + calls[n].opened

\* 1-based position of the sheet that was active when call i was issued
ActiveBefore(i) == 1 + OpenedUpTo(i - 1)

\* C32: after a failed pack_piece call the sheet that was active before it,
\* and every older one, holds only placements of earlier calls, and every
\* later placement is returned for the sheet the failed call opened or a
\* later one.
C32_FailureRetiresSheet ==
    \A i \in 1..Len(calls) :
        Failed(i) =>
            /\ \A s \in 1..Min(ActiveBefore(i), Len(sheets)) :
                   \A p \in 1..Len(Placed(s)) : Placed(s)[p].piece < i
            /\ \A j \in (i + 1)..Len(calls) :
                   calls[j].result.ok => Index(j) >= ActiveBefore(i)

\* a piece was placed, a call failed, and a later piece went to the fresh
\* sheet although the first sheet still had room for it
C32_Witness ==
    /\ strategy # "SKYLINE"
    /\ \E i, j \in 1..Len(calls) :
           /\ i < j
           /\ Failed(i)
           /\ calls[j].result.ok
           /\ Len(Placed(ActiveBefore(i))) >= 1
           /\ RectFeasible(sheets[ActiveBefore(i)], calls[j].width, calls[j].height)

\* --------------------------------------------------------------------- C33
\* C33: if no pack_piece call has failed and at least one piece has been
\* placed, every sheet in sheets holds at least one placement.
C33_NoEmptySheetWithoutFailure ==
    (calls # <<>> /\ \A i \in 1..Len(calls) : calls[i].result.ok) =>
        \A s \in 1..Len(sheets) : Len(Placed(s)) >= 1

\* no call failed and the pieces are spread over three sheets
C33_Witness ==
    /\ calls # <<>>
    /\ \A i \in 1..Len(calls) : calls[i].result.ok
    /\ Len(sheets) = 3

\* --------------------------------------------------------------------- C34
\* the placement record matches the call and its returned values
RecordMatches(rec, c) ==
    /\ rec.piece = c.piece
    /\ rec.x = c.result.x
    /\ rec.y = c.result.y
    /\ rec.width = c.result.width
    /\ rec.height = c.result.height
    /\ rec.rotated = c.result.rotated

\* number of placement records on the first n sheets
RECURSIVE RecordsOn(_, _)
RecordsOn(shs, n) ==
    IF n = 0 THEN 0 ELSE RecordsOn(shs, n - 1) + Len(shs[n].placed_pieces)

C34_Step ==
    IsCall =>
        LET c == calls'[Len(calls')]
            last == sheets'[Len(sheets')].placed_pieces
        IN IF c.result.ok
           THEN /\ c.result.sheet_index = Len(sheets') - 1
                /\ Len(last) >= 1
                /\ RecordMatches(last[Len(last)], c)
                /\ RecordsOn(sheets', Len(sheets')) = RecordsOn(sheets, Len(sheets)) + 1
           ELSE RecordsOn(sheets', Len(sheets')) = RecordsOn(sheets, Len(sheets))

RecordsEqualSuccesses ==
    RecordsOn(sheets, Len(sheets)) =
        Cardinality({i \in 1..Len(calls) : calls[i].result.ok})

\* C34: every successful pack_piece call appends exactly one record to the
\* placement list of the last sheet, returns that sheet's index, and the
\* record carries the call's piece and the returned x, y, width, height and
\* rotated flag; a failed call appends none; so the number of records equals
\* the number of successful calls.
C34_OneRecordPerSuccess == [][C34_Step]_vars /\ []RecordsEqualSuccesses

\* a rotated placement was recorded after a failed call and an earlier
\* placement
C34_Witness ==
    \E i, j, k \in 1..Len(calls) :
        /\ i < k
        /\ calls[i].result.ok
        /\ Failed(j)
        /\ calls[k].result.ok /\ calls[k].result.rotated

\* --------------------------------------------------------------------- C35
\* C35: a square piece (width = height) is never returned as rotated, by
\* any of the three strategies.
C35_SquareNeverRotated ==
    \A i \in 1..Len(calls) :
        (calls[i].result.ok /\ calls[i].width = calls[i].height) =>
            ~calls[i].result.rotated

\* a square piece was placed away from the origin of a sheet already in use
C35_Witness ==
    \E i \in 2..Len(calls) :
        /\ calls[i].result.ok
        /\ calls[i].width = calls[i].height
        /\ calls[i].opened = 0
        /\ calls[i].result.x + calls[i].result.y > 0

\* --------------------------------------------------------------------- C37
\* C37: on every GuillotinePacker sheet the number of free rectangles, and
\* on every SkylinePacker sheet the number of skyline nodes, is at most the
\* number of placements on that sheet plus one.
C37_FreeStructureBounded ==
    /\ strategy = "GUILLOTINE" =>
           \A s \in 1..Len(sheets) :
               Len(sheets[s].free_rects) <= Len(Placed(s)) + 1
    /\ strategy = "SKYLINE" =>
           \A s \in 1..Len(sheets) :
               Len(sheets[s].skyline) <= Len(Placed(s)) + 1

\* a skyline sheet with two placements and three nodes: the bound is reached
C37_Witness ==
    /\ strategy = "SKYLINE"
    /\ \E s \in 1..Len(sheets) :
           Len(Placed(s)) = 2 /\ Len(sheets[s].skyline) = 3

====
